---- MODULE Spec2Model ----
(***************************************************************************)
(* Call-flow / dial-transfer orchestration of server/bot.py:               *)
(* SessionManager, CallFlowState, the two frame processors, the speak gate *)
(* and the transport event handlers and model-invoked functions closed     *)
(* over the retry variables of bot().                                      *)
(*                                                                         *)
(* phase is an observer of the events, not state of the program: bot_only  *)
(* until an operator answers, summarizing until the bot next stops         *)
(* speaking, operator_active until that operator leaves.                   *)
(*                                                                         *)
(* Spec            one call: the handlers of bot(), each run to completion *)
(* SpecFair        Spec, where a dial request in flight gets its outcome   *)
(* SpecAsync       one call: the handlers and functions of bot() cut at    *)
(*                 their awaits, a suspended handler letting others run    *)
(* SpecComponents  the classes and processors driven through their public  *)
(*                 methods in any order                                    *)
(***************************************************************************)
EXTENDS Integers, Sequences, FiniteSets, TLC

\* ---------------------------------------------------------------- bounds
\* the message log is append-only; handlers that would grow it past this
\* length are not taken
MaxMessages == 5
\* handlers suspended at an await at the same time
MaxTasks == 2

\* ------------------------------------------------------------- constants
max_retries == 5

None == "None"
Number == "+15551234"
\* values os.getenv("OPERATOR_NUMBER", None) can give
OperatorNumbers == {None, "", Number}

Roles == {"operator", "customer", "bot"}
\* participant types a caller may pass, one of them not a key of session_ids
ParticipantTypes == Roles \cup {"supervisor"}
OperatorIds == {"op1", "op2"}
Ids == OperatorIds \cup {"cust"}

OperatorPrefix == <<"[OPERATOR]: ">>
Texts == {<<"hello">>}
FrameTypes == {"TranscriptionFrame", "BotStoppedSpeakingFrame", "TextFrame"}
Directions == {"DOWNSTREAM", "UPSTREAM"}
\* transcriptions of every speaker, and a frame of another type
Frames ==
  [type : {"TranscriptionFrame"}, user_id : Ids \cup {None}, text : Texts]
    \cup [type : {"TextFrame"}, user_id : {None}, text : Texts]

VARIABLES
  operator_number,     \* os.getenv("OPERATOR_NUMBER")
  session_ids,         \* SessionManager.session_ids
  session_id_refs,     \* SessionManager.session_id_refs, the cell's content
  call_flow_state,     \* CallFlowState: the three flags
  retry_count,
  dialout_successful,
  dialout_params,      \* the phoneNumber of the dict, or None
  messages,            \* the message log
  dialout_requests,    \* transport.start_dialout calls issued so far
  outstanding,         \* dial requests issued and not yet answered or failed
  first_joined,        \* on_first_participant_joined has fired
  cancelled,           \* task.cancel() has been called
  phase,               \* observer: where the call stands, from its events
  tasks,               \* handlers suspended at an await, with what is left
  pre,                 \* the call-flow flags before the last step
  event,               \* the handler or method the last step ran
  calls,               \* the external calls the last step made, in order
  ret                  \* the value the last step returned

vars == <<operator_number, session_ids, session_id_refs, call_flow_state,
          retry_count, dialout_successful, dialout_params, messages,
          dialout_requests, outstanding, first_joined, cancelled, phase,
          tasks, pre, event, calls, ret>>

orchestrator == <<retry_count, dialout_successful, dialout_params, messages,
                  dialout_requests, outstanding, first_joined, cancelled>>

\* a handler suspended at an await that has statements left to run; the
\* argument is the session id of the event, where the rest uses it
Continuations ==
  [handler : {"dial_operator", "terminate_call",
              "on_first_participant_joined"}, arg : {None}]
    \cup [handler : {"on_dialout_answered"}, arg : OperatorIds]
Continuation(handler, arg) == [handler |-> handler, arg |-> arg]

\* ------------------------------------------------------------- helpers
\* a slot with no frame in it
NoFrame == [type |-> None, user_id |-> None, text |-> << >>]
\* an external call with a string argument, and push_frame(frame, direction)
Call(name, arg) ==
  [call |-> name, arg |-> arg, frame |-> NoFrame, direction |-> None]
PushFrame(frame, direction) ==
  [call |-> "push_frame", arg |-> frame.type, frame |-> frame,
   direction |-> direction]
\* a Python bool as the handler returns it
PyBool(b) == IF b THEN "True" ELSE "False"
Count(cs, name) == Len(SelectSeq(cs, LAMBDA c : c.call = name))
Last(s) == s[Len(s)]

\* Python truthiness of an optional string
Truthy_empty(x) == x # None
Truthy(x) == x # None /\ x # ""

\* ------------------------------------------------------- CallFlowState
CallFlowState_init ==
  [dialed_operator |-> FALSE, operator_connected |-> FALSE,
   summary_finished |-> FALSE]

set_operator_dialed(f) == [f EXCEPT !.dialed_operator = TRUE]

set_operator_connected_keep(f) == [f EXCEPT !.operator_connected = TRUE]
set_operator_connected(f) ==
  [f EXCEPT !.operator_connected = TRUE, !.summary_finished = FALSE]

set_operator_disconnected(f) ==
  [f EXCEPT !.operator_connected = FALSE, !.summary_finished = FALSE]

set_summary_finished(f) == [f EXCEPT !.summary_finished = TRUE]

\* ------------------------------------------------------ SessionManager
SessionManager_init == [r \in Roles |-> None]

\* set_session_id: the new session_ids and session_id_refs
set_session_id_refs_only(ids, refs, participant_type, session_id) ==
  IF participant_type \in DOMAIN ids
  THEN [session_ids |-> ids,
        session_id_refs |-> [refs EXCEPT ![participant_type] = session_id]]
  ELSE [session_ids |-> ids, session_id_refs |-> refs]
set_session_id_ids_only(ids, refs, participant_type, session_id) ==
  IF participant_type \in DOMAIN ids
  THEN [session_ids |-> [ids EXCEPT ![participant_type] = session_id],
        session_id_refs |-> refs]
  ELSE [session_ids |-> ids, session_id_refs |-> refs]
set_session_id(ids, refs, participant_type, session_id) ==
  IF participant_type \in DOMAIN ids
  THEN [session_ids |-> [ids EXCEPT ![participant_type] = session_id],
        session_id_refs |->
          IF participant_type \in DOMAIN refs
          THEN [refs EXCEPT ![participant_type] = session_id]
          ELSE refs]
  ELSE [session_ids |-> ids, session_id_refs |-> refs]

get_session_id(ids, participant_type) ==
  IF participant_type \in DOMAIN ids THEN ids[participant_type] ELSE None

\* on_participant_left's test: the operator is the one who left
operator_left_any(ids, id) == get_session_id(ids, "operator") # None
operator_left(ids, id) ==
  /\ get_session_id(ids, "operator") # None
  /\ id = get_session_id(ids, "operator")

\* reset_participant: the new session_ids, session_id_refs and flags
reset_participant_ids_only(ids, refs, f, participant_type) ==
  IF participant_type \in DOMAIN ids
  THEN [session_ids |-> [ids EXCEPT ![participant_type] = None],
        session_id_refs |-> [refs EXCEPT ![participant_type] = None],
        call_flow_state |-> f]
  ELSE [session_ids |-> ids, session_id_refs |-> refs, call_flow_state |-> f]
reset_participant_any_role(ids, refs, f, participant_type) ==
  IF participant_type \in DOMAIN ids
  THEN [session_ids |-> [ids EXCEPT ![participant_type] = None],
        session_id_refs |-> [refs EXCEPT ![participant_type] = None],
        call_flow_state |-> set_operator_disconnected(f)]
  ELSE [session_ids |-> ids, session_id_refs |-> refs, call_flow_state |-> f]
reset_participant(ids, refs, f, participant_type) ==
  IF participant_type \in DOMAIN ids
  THEN [session_ids |-> [ids EXCEPT ![participant_type] = None],
        session_id_refs |->
          IF participant_type \in DOMAIN refs
          THEN [refs EXCEPT ![participant_type] = None]
          ELSE refs,
        call_flow_state |->
          IF participant_type = "operator"
          THEN set_operator_disconnected(f)
          ELSE f]
  ELSE [session_ids |-> ids, session_id_refs |-> refs, call_flow_state |-> f]

\* ---------------------------------------- TranscriptionModifierProcessor
\* the frame process_frame pushes, given the content of the operator cell
modify_any_direction(frame, direction, ref) ==
  IF /\ frame.type = "TranscriptionFrame"
     /\ ref # None
     /\ frame.user_id = ref
  THEN [frame EXCEPT !.text = OperatorPrefix \o frame.text]
  ELSE frame
modify_transcription(frame, direction, ref) ==
  IF /\ direction = "DOWNSTREAM"
     /\ frame.type = "TranscriptionFrame"
     /\ ref # None
     /\ frame.user_id = ref
  THEN [frame EXCEPT !.text = OperatorPrefix \o frame.text]
  ELSE frame

\* ------------------------------------------------------ SummaryFinished
\* the flags after process_frame has seen a frame of this type
summary_finished_any_frame(f, type) ==
  IF f.operator_connected THEN set_summary_finished(f) ELSE f
summary_finished_unguarded(f, type) ==
  IF type = "BotStoppedSpeakingFrame" THEN set_summary_finished(f) ELSE f
summary_finished_frame(f, type) ==
  IF f.operator_connected /\ type = "BotStoppedSpeakingFrame"
  THEN set_summary_finished(f)
  ELSE f

\* ------------------------------------------------------------ speak gate
should_speak_and(f) == ~f.operator_connected /\ ~f.summary_finished
should_speak(f) == ~f.operator_connected \/ ~f.summary_finished

\* ---------------------------------------------- attempt_operator_dialout
\* what one attempt does to retry_count and the message log, and the
\* external calls it makes
attempt_no_success_check(rc, succ, msgs, params) ==
  IF rc < max_retries
  THEN [retry_count |-> rc + 1, messages |-> msgs,
        calls |-> <<Call("start_dialout", params)>>]
  ELSE [retry_count |-> rc, messages |-> Append(msgs, "unable_to_connect"),
        calls |-> <<Call("queue_frames", "LLMMessagesFrame")>>]
attempt_off_by_one(rc, succ, msgs, params) ==
  IF rc <= max_retries /\ ~succ
  THEN [retry_count |-> rc + 1, messages |-> msgs,
        calls |-> <<Call("start_dialout", params)>>]
  ELSE [retry_count |-> rc, messages |-> Append(msgs, "unable_to_connect"),
        calls |-> <<Call("queue_frames", "LLMMessagesFrame")>>]
attempt_cancels_when_exhausted(rc, succ, msgs, params) ==
  IF rc < max_retries /\ ~succ
  THEN [retry_count |-> rc + 1, messages |-> msgs,
        calls |-> <<Call("start_dialout", params)>>]
  ELSE [retry_count |-> rc, messages |-> Append(msgs, "unable_to_connect"),
        calls |-> <<Call("queue_frames", "LLMMessagesFrame"),
                    Call("cancel", None)>>]
attempt_no_increment(rc, succ, msgs, params) ==
  IF rc < max_retries /\ ~succ
  THEN [retry_count |-> rc, messages |-> msgs,
        calls |-> <<Call("start_dialout", params)>>]
  ELSE [retry_count |-> rc, messages |-> Append(msgs, "unable_to_connect"),
        calls |-> <<Call("queue_frames", "LLMMessagesFrame")>>]
attempt_dials_twice(rc, succ, msgs, params) ==
  IF rc < max_retries /\ ~succ
  THEN [retry_count |-> rc + 1, messages |-> msgs,
        calls |-> <<Call("start_dialout", params),
                    Call("start_dialout", params)>>]
  ELSE [retry_count |-> rc, messages |-> Append(msgs, "unable_to_connect"),
        calls |-> <<Call("queue_frames", "LLMMessagesFrame")>>]
attempt_operator_dialout(rc, succ, msgs, params) ==
  IF rc < max_retries /\ ~succ
  THEN [retry_count |-> rc + 1, messages |-> msgs,
        calls |-> <<Call("start_dialout", params)>>]
  ELSE [retry_count |-> rc, messages |-> Append(msgs, "unable_to_connect"),
        calls |-> <<Call("queue_frames", "LLMMessagesFrame")>>]

\* ------------------------------------------------------------------ Init
Init ==
  /\ operator_number \in OperatorNumbers
  /\ session_ids = SessionManager_init
  /\ session_id_refs = SessionManager_init
  /\ call_flow_state = CallFlowState_init
  /\ retry_count = 0
  /\ dialout_successful = FALSE
  /\ dialout_params = None
  /\ messages = <<"system_instruction">>
  /\ dialout_requests = 0
  /\ outstanding = 0
  /\ first_joined = FALSE
  /\ cancelled = FALSE
  /\ phase = [stage |-> "bot_only", operator |-> None]
  /\ tasks = [k \in Continuations |-> 0]
  /\ pre = CallFlowState_init
  /\ event = [op |-> "bot", arg |-> None, id |-> None, frame |-> NoFrame,
              direction |-> None]
  /\ calls = << >>
  /\ ret = None

\* every step records the handler it ran and the flags it started from
Record(op, arg, id, frame, direction) ==
  /\ event' = [op |-> op, arg |-> arg, id |-> id, frame |-> frame,
               direction |-> direction]
  /\ pre' = call_flow_state
  /\ UNCHANGED operator_number
\* a handler run from its first statement to its last
StepWith(op, arg, id, frame, direction) ==
  /\ Record(op, arg, id, frame, direction)
  /\ UNCHANGED tasks
Step(op, arg) == StepWith(op, arg, None, NoFrame, None)

\* ------------------------------------------------- model-invoked functions
terminate_call_end_first ==
  /\ Len(messages) + 1 <= MaxMessages
  /\ messages' = Append(messages, "farewell")
  /\ calls' = <<Call("queue_frame", "EndTaskFrame"),
                Call("queue_frames", "LLMMessagesFrame")>>
  /\ ret' = None
  /\ UNCHANGED phase
  /\ Step("terminate_call", None)
  /\ UNCHANGED <<session_ids, session_id_refs, call_flow_state, retry_count,
                 dialout_successful, dialout_params, dialout_requests,
                 outstanding, first_joined, cancelled>>
terminate_call ==
  /\ Len(messages) + 1 <= MaxMessages
  /\ messages' = Append(messages, "farewell")
  /\ calls' = <<Call("queue_frames", "LLMMessagesFrame"),
                Call("queue_frame", "EndTaskFrame")>>
  /\ ret' = None
  /\ UNCHANGED phase
  /\ Step("terminate_call", None)
  /\ UNCHANGED <<session_ids, session_id_refs, call_flow_state, retry_count,
                 dialout_successful, dialout_params, dialout_requests,
                 outstanding, first_joined, cancelled>>

dial_operator ==
  /\ IF Truthy(operator_number)
     THEN LET a == attempt_operator_dialout(retry_count, dialout_successful,
                     Append(messages, "dial_intent"), operator_number)
          IN /\ Len(a.messages) <= MaxMessages
             /\ call_flow_state' = set_operator_dialed(call_flow_state)
             /\ dialout_params' = operator_number
             /\ messages' = a.messages
             /\ retry_count' = a.retry_count
             /\ dialout_requests' =
                  dialout_requests + Count(a.calls, "start_dialout")
             /\ outstanding' = outstanding + Count(a.calls, "start_dialout")
             /\ calls' = <<Call("queue_frames", "LLMMessagesFrame")>> \o a.calls
     ELSE /\ Len(messages) + 1 <= MaxMessages
          /\ messages' = Append(messages, "no_dialout_settings")
          /\ calls' = <<Call("queue_frames", "LLMMessagesFrame")>>
          /\ UNCHANGED <<call_flow_state, dialout_params, retry_count,
                         dialout_requests, outstanding>>
  /\ ret' = None
  /\ UNCHANGED phase
  /\ Step("dial_operator", None)
  /\ UNCHANGED <<session_ids, session_id_refs, dialout_successful,
                 first_joined, cancelled>>

\* ---------------------------------------------------------- event handlers
on_first_participant_joined(id) ==
  /\ ~first_joined
  /\ first_joined' = TRUE
  /\ calls' = <<Call("capture_participant_transcription", id),
                Call("queue_frames", "OpenAILLMContextFrame")>>
  /\ ret' = None
  /\ UNCHANGED phase
  /\ Step("on_first_participant_joined", id)
  /\ UNCHANGED <<session_ids, session_id_refs, call_flow_state, retry_count,
                 dialout_successful, dialout_params, messages,
                 dialout_requests, outstanding, cancelled>>

\* the transport reports the outcome of a dial request it was given
on_dialout_answered(sessionId) ==
  /\ outstanding > 0
  /\ outstanding' = outstanding - 1
  /\ dialout_successful' = TRUE
  /\ IF call_flow_state.operator_connected
     THEN /\ calls' = <<Call("capture_participant_transcription", sessionId)>>
          /\ UNCHANGED <<session_ids, session_id_refs, call_flow_state,
                         messages>>
     ELSE LET s == set_session_id(session_ids, session_id_refs,
                                  "operator", sessionId)
          IN /\ Len(messages) + 1 <= MaxMessages
             /\ session_ids' = s.session_ids
             /\ session_id_refs' = s.session_id_refs
             /\ call_flow_state' = set_operator_connected(call_flow_state)
             /\ messages' = Append(messages, "operator_joining")
             /\ calls' = <<Call("capture_participant_transcription", sessionId),
                           Call("queue_frames", "LLMMessagesFrame")>>
  /\ ret' = None
  /\ phase' = IF phase.stage = "bot_only"
              THEN [stage |-> "summarizing", operator |-> sessionId]
              ELSE phase
  /\ Step("on_dialout_answered", sessionId)
  /\ UNCHANGED <<retry_count, dialout_params, dialout_requests, first_joined,
                 cancelled>>

on_dialout_connected ==
  /\ outstanding > 0
  /\ calls' = << >>
  /\ ret' = None
  /\ UNCHANGED phase
  /\ Step("on_dialout_connected", None)
  /\ UNCHANGED <<session_ids, session_id_refs, call_flow_state, orchestrator>>

on_dialout_error ==
  /\ outstanding > 0
  /\ IF retry_count < max_retries
     THEN LET a == attempt_operator_dialout(retry_count, dialout_successful,
                                            messages, dialout_params)
          IN /\ Len(a.messages) <= MaxMessages
             /\ messages' = a.messages
             /\ retry_count' = a.retry_count
             /\ dialout_requests' =
                  dialout_requests + Count(a.calls, "start_dialout")
             /\ outstanding' =
                  outstanding - 1 + Count(a.calls, "start_dialout")
             /\ calls' = a.calls
     ELSE /\ outstanding' = outstanding - 1
          /\ calls' = << >>
          /\ UNCHANGED <<messages, retry_count, dialout_requests>>
  /\ ret' = None
  /\ UNCHANGED phase
  /\ Step("on_dialout_error", None)
  /\ UNCHANGED <<session_ids, session_id_refs, call_flow_state,
                 dialout_successful, dialout_params, first_joined, cancelled>>

on_dialout_stopped(sessionId) ==
  /\ dialout_requests > 0
  /\ calls' = << >>
  /\ ret' = None
  /\ UNCHANGED phase
  /\ Step("on_dialout_stopped", sessionId)
  /\ UNCHANGED <<session_ids, session_id_refs, call_flow_state, orchestrator>>

on_participant_left(id) ==
  /\ IF ~operator_left(session_ids, id)
     THEN /\ cancelled' = TRUE
          /\ calls' = <<Call("cancel", None)>>
          /\ UNCHANGED <<session_ids, session_id_refs, call_flow_state,
                         messages>>
     ELSE LET r == reset_participant(session_ids, session_id_refs,
                                     call_flow_state, "operator")
          IN /\ Len(messages) + 1 <= MaxMessages
             /\ session_ids' = r.session_ids
             /\ session_id_refs' = r.session_id_refs
             /\ call_flow_state' = r.call_flow_state
             /\ messages' = Append(messages, "operator_left")
             /\ calls' = <<Call("queue_frames", "LLMMessagesFrame")>>
             /\ UNCHANGED cancelled
  /\ ret' = None
  /\ phase' = IF phase.stage # "bot_only" /\ id = phase.operator
              THEN [stage |-> "bot_only", operator |-> None]
              ELSE phase
  /\ Step("on_participant_left", id)
  /\ UNCHANGED <<retry_count, dialout_successful, dialout_params,
                 dialout_requests, outstanding, first_joined>>

\* ------------------------------------------------------- pipeline stages
\* TranscriptionModifierProcessor.process_frame
TranscriptionModifier_process_frame(frame, direction) ==
  /\ calls' = <<PushFrame(modify_transcription(frame, direction,
                                                session_id_refs["operator"]),
                          direction)>>
  /\ ret' = None
  /\ UNCHANGED phase
  /\ StepWith("TranscriptionModifierProcessor.process_frame", frame.type,
              None, frame, direction)
  /\ UNCHANGED <<session_ids, session_id_refs, call_flow_state, orchestrator>>

\* FunctionFilter(should_speak), evaluated on a turn
FunctionFilter_should_speak ==
  /\ ret' = PyBool(should_speak(call_flow_state))
  /\ calls' = << >>
  /\ UNCHANGED phase
  /\ Step("should_speak", None)
  /\ UNCHANGED <<session_ids, session_id_refs, call_flow_state, orchestrator>>

\* SummaryFinished.process_frame
SummaryFinished_process_frame(type) ==
  /\ call_flow_state' = summary_finished_frame(call_flow_state, type)
  /\ calls' = <<Call("push_frame", type)>>
  /\ ret' = None
  /\ phase' = IF phase.stage = "summarizing"
                   /\ type = "BotStoppedSpeakingFrame"
              THEN [phase EXCEPT !.stage = "operator_active"]
              ELSE phase
  /\ Step("SummaryFinished.process_frame", type)
  /\ UNCHANGED <<session_ids, session_id_refs, orchestrator>>

Pipeline ==
  \/ \E frame \in Frames, direction \in Directions :
       TranscriptionModifier_process_frame(frame, direction)
  \/ FunctionFilter_should_speak
  \/ \E type \in FrameTypes : SummaryFinished_process_frame(type)

Next ==
  \/ terminate_call
  \/ dial_operator
  \/ \E id \in Ids : on_first_participant_joined(id)
  \/ \E sessionId \in OperatorIds : on_dialout_answered(sessionId)
  \/ on_dialout_connected
  \/ on_dialout_error
  \/ \E sessionId \in OperatorIds : on_dialout_stopped(sessionId)
  \/ \E id \in Ids : on_participant_left(id)
  \/ Pipeline

Spec == Init /\ [][Next]_vars

\* the transport reports the outcome of an outstanding dial request
DialResult ==
  \/ on_dialout_error
  \/ \E sessionId \in OperatorIds : on_dialout_answered(sessionId)

\* every issued dial request is eventually answered or fails
SpecFair == Init /\ [][Next]_vars /\ WF_vars(DialResult)

\* ------------------------------------------- the handlers cut at awaits
\* A handler runs from one await to the next without interruption; while it
\* waits, the event loop runs other handlers.  A handler with statements
\* left after an await is kept in tasks until it is resumed.  Handlers whose
\* last statement is their only await (on_dialout_error, on_participant_left,
\* on_dialout_connected, on_dialout_stopped) are one segment.
Suspended == LET S[K \in SUBSET Continuations] ==
                   IF K = {} THEN 0
                   ELSE LET k == CHOOSE x \in K : TRUE
                        IN tasks[k] + S[K \ {k}]
             IN S[Continuations]
Suspend(k) ==
  /\ Suspended < MaxTasks
  /\ tasks' = [tasks EXCEPT ![k] = @ + 1]
Resume(k) ==
  /\ tasks[k] > 0
  /\ tasks' = [tasks EXCEPT ![k] = @ - 1]
Segment(op, arg) == Record(op, arg, None, NoFrame, None)

\* up to `await task.queue_frames(...)`
terminate_call_begin ==
  /\ Len(messages) + 1 <= MaxMessages
  /\ messages' = Append(messages, "farewell")
  /\ calls' = <<Call("queue_frames", "LLMMessagesFrame")>>
  /\ ret' = None
  /\ Suspend(Continuation("terminate_call", None))
  /\ Segment("terminate_call", None)
  /\ UNCHANGED <<session_ids, session_id_refs, call_flow_state, retry_count,
                 dialout_successful, dialout_params, dialout_requests,
                 outstanding, first_joined, cancelled, phase>>
\* from there to the end
terminate_call_resume ==
  /\ Resume(Continuation("terminate_call", None))
  /\ calls' = <<Call("queue_frame", "EndTaskFrame")>>
  /\ ret' = None
  /\ Segment("terminate_call resumed", None)
  /\ UNCHANGED <<session_ids, session_id_refs, call_flow_state, orchestrator,
                 phase>>

\* up to `await task.queue_frames(...)` of either branch
dial_operator_begin ==
  /\ Len(messages) + 1 <= MaxMessages
  /\ IF Truthy(operator_number)
     THEN /\ call_flow_state' = set_operator_dialed(call_flow_state)
          /\ messages' = Append(messages, "dial_intent")
          /\ Suspend(Continuation("dial_operator", None))
     ELSE /\ messages' = Append(messages, "no_dialout_settings")
          /\ UNCHANGED <<call_flow_state, tasks>>
  /\ calls' = <<Call("queue_frames", "LLMMessagesFrame")>>
  /\ ret' = None
  /\ Segment("dial_operator", None)
  /\ UNCHANGED <<session_ids, session_id_refs, retry_count,
                 dialout_successful, dialout_params, dialout_requests,
                 outstanding, first_joined, cancelled, phase>>
\* from there: the parameters, then attempt_operator_dialout to its await
dial_operator_resume ==
  /\ Resume(Continuation("dial_operator", None))
  /\ LET a == attempt_operator_dialout(retry_count, dialout_successful,
                                       messages, operator_number)
     IN /\ Len(a.messages) <= MaxMessages
        /\ dialout_params' = operator_number
        /\ messages' = a.messages
        /\ retry_count' = a.retry_count
        /\ dialout_requests' =
             dialout_requests + Count(a.calls, "start_dialout")
        /\ outstanding' = outstanding + Count(a.calls, "start_dialout")
        /\ calls' = a.calls
  /\ ret' = None
  /\ Segment("dial_operator resumed", None)
  /\ UNCHANGED <<session_ids, session_id_refs, call_flow_state,
                 dialout_successful, first_joined, cancelled, phase>>

\* up to `await transport.capture_participant_transcription(...)`
on_first_participant_joined_begin(id) ==
  /\ ~first_joined
  /\ first_joined' = TRUE
  /\ calls' = <<Call("capture_participant_transcription", id)>>
  /\ ret' = None
  /\ Suspend(Continuation("on_first_participant_joined", None))
  /\ Segment("on_first_participant_joined", id)
  /\ UNCHANGED <<session_ids, session_id_refs, call_flow_state, retry_count,
                 dialout_successful, dialout_params, messages,
                 dialout_requests, outstanding, cancelled, phase>>
on_first_participant_joined_resume ==
  /\ Resume(Continuation("on_first_participant_joined", None))
  /\ calls' = <<Call("queue_frames", "OpenAILLMContextFrame")>>
  /\ ret' = None
  /\ Segment("on_first_participant_joined resumed", None)
  /\ UNCHANGED <<session_ids, session_id_refs, call_flow_state, orchestrator,
                 phase>>

\* up to `await transport.capture_participant_transcription(...)`: nothing
\* of the orchestrator has changed yet
on_dialout_answered_begin(sessionId) ==
  /\ outstanding > 0
  /\ outstanding' = outstanding - 1
  /\ calls' = <<Call("capture_participant_transcription", sessionId)>>
  /\ ret' = None
  /\ phase' = IF phase.stage = "bot_only"
              THEN [stage |-> "summarizing", operator |-> sessionId]
              ELSE phase
  /\ Suspend(Continuation("on_dialout_answered", sessionId))
  /\ Segment("on_dialout_answered", sessionId)
  /\ UNCHANGED <<session_ids, session_id_refs, call_flow_state, retry_count,
                 dialout_successful, dialout_params, messages,
                 dialout_requests, first_joined, cancelled>>
\* from there: the success mark, then the connection
on_dialout_answered_resume(sessionId) ==
  /\ Resume(Continuation("on_dialout_answered", sessionId))
  /\ dialout_successful' = TRUE
  /\ IF call_flow_state.operator_connected
     THEN /\ calls' = << >>
          /\ UNCHANGED <<session_ids, session_id_refs, call_flow_state,
                         messages>>
     ELSE LET s == set_session_id(session_ids, session_id_refs,
                                  "operator", sessionId)
          IN /\ Len(messages) + 1 <= MaxMessages
             /\ session_ids' = s.session_ids
             /\ session_id_refs' = s.session_id_refs
             /\ call_flow_state' = set_operator_connected(call_flow_state)
             /\ messages' = Append(messages, "operator_joining")
             /\ calls' = <<Call("queue_frames", "LLMMessagesFrame")>>
  /\ ret' = None
  /\ Segment("on_dialout_answered resumed", sessionId)
  /\ UNCHANGED <<retry_count, dialout_params, dialout_requests, outstanding,
                 first_joined, cancelled, phase>>

\* the pipeline stages keep no state of the dialout cycle and have no await
\* before their effect; they are left to Spec
NextAsync ==
  \/ terminate_call_begin
  \/ terminate_call_resume
  \/ dial_operator_begin
  \/ dial_operator_resume
  \/ \E id \in Ids : on_first_participant_joined_begin(id)
  \/ on_first_participant_joined_resume
  \/ \E sessionId \in OperatorIds : on_dialout_answered_begin(sessionId)
  \/ \E sessionId \in OperatorIds : on_dialout_answered_resume(sessionId)
  \/ on_dialout_connected
  \/ on_dialout_error
  \/ \E sessionId \in OperatorIds : on_dialout_stopped(sessionId)
  \/ \E id \in Ids : on_participant_left(id)

SpecAsync == Init /\ [][NextAsync]_vars

\* ------------------------------------- the components, method by method
CallFlowState_set_operator_dialed ==
  /\ call_flow_state' = set_operator_dialed(call_flow_state)
  /\ calls' = << >>
  /\ ret' = None
  /\ UNCHANGED phase
  /\ Step("set_operator_dialed", None)
  /\ UNCHANGED <<session_ids, session_id_refs, orchestrator>>

CallFlowState_set_operator_connected ==
  /\ call_flow_state' = set_operator_connected(call_flow_state)
  /\ calls' = << >>
  /\ ret' = None
  /\ UNCHANGED phase
  /\ Step("set_operator_connected", None)
  /\ UNCHANGED <<session_ids, session_id_refs, orchestrator>>

CallFlowState_set_operator_disconnected ==
  /\ call_flow_state' = set_operator_disconnected(call_flow_state)
  /\ calls' = << >>
  /\ ret' = None
  /\ UNCHANGED phase
  /\ Step("set_operator_disconnected", None)
  /\ UNCHANGED <<session_ids, session_id_refs, orchestrator>>

CallFlowState_set_summary_finished ==
  /\ call_flow_state' = set_summary_finished(call_flow_state)
  /\ calls' = << >>
  /\ ret' = None
  /\ UNCHANGED phase
  /\ Step("set_summary_finished", None)
  /\ UNCHANGED <<session_ids, session_id_refs, orchestrator>>

SessionManager_set_session_id(participant_type, session_id) ==
  /\ LET s == set_session_id(session_ids, session_id_refs,
                             participant_type, session_id)
     IN /\ session_ids' = s.session_ids
        /\ session_id_refs' = s.session_id_refs
  /\ calls' = << >>
  /\ ret' = None
  /\ UNCHANGED phase
  /\ StepWith("set_session_id", participant_type, session_id, NoFrame, None)
  /\ UNCHANGED <<call_flow_state, orchestrator>>

SessionManager_reset_participant(participant_type) ==
  /\ LET r == reset_participant(session_ids, session_id_refs,
                                call_flow_state, participant_type)
     IN /\ session_ids' = r.session_ids
        /\ session_id_refs' = r.session_id_refs
        /\ call_flow_state' = r.call_flow_state
  /\ calls' = << >>
  /\ ret' = None
  /\ UNCHANGED phase
  /\ Step("reset_participant", participant_type)
  /\ UNCHANGED orchestrator

NextComponents ==
  \/ CallFlowState_set_operator_dialed
  \/ CallFlowState_set_operator_connected
  \/ CallFlowState_set_operator_disconnected
  \/ CallFlowState_set_summary_finished
  \/ \E participant_type \in ParticipantTypes, session_id \in Ids :
       SessionManager_set_session_id(participant_type, session_id)
  \/ \E participant_type \in ParticipantTypes :
       SessionManager_reset_participant(participant_type)
  \/ Pipeline

SpecComponents == Init /\ [][NextComponents]_vars

\* ================================================================ claims

\* C1: after any set_operator_connected or set_operator_disconnected call
\* (the latter also when reset_participant("operator") makes it),
\* summary_finished is false.
C1_SummaryClearedOnConnectChange ==
  (\/ event.op \in {"set_operator_connected", "set_operator_disconnected"}
   \/ (event.op = "reset_participant" /\ event.arg = "operator"))
    => ~call_flow_state.summary_finished

\* a connect that found the summary flag raised and cleared it
C1_Witness ==
  /\ event.op = "set_operator_connected"
  /\ pre.summary_finished
  /\ ~call_flow_state.summary_finished

\* C2: retry_count stays within 0..max_retries, the dial requests issued
\* number retry_count, and no step taken once retry_count has reached
\* max_retries issues a dial request.
C2_DialRequestsBounded ==
  /\ [](/\ retry_count \in 0..max_retries
        /\ dialout_requests = retry_count)
  /\ [][retry_count = max_retries
          => /\ Count(calls', "start_dialout") = 0
             /\ dialout_requests' = dialout_requests]_vars

\* a transfer request made with the budget used up: the attempt fell
\* through to the failure notice
C2_Witness ==
  /\ event.op = "dial_operator"
  /\ retry_count = max_retries
  /\ ~dialout_successful
  /\ Last(messages) = "unable_to_connect"
  /\ Count(calls, "start_dialout") = 0

\* C3: once dialout_successful is set, no later step issues a dial request.
C3_NoDialAfterSuccess ==
  [][dialout_successful
       => /\ Count(calls', "start_dialout") = 0
          /\ dialout_requests' = dialout_requests]_vars

\* an error event handled after success, with retries left, made an attempt
\* and that attempt dialled nothing
C3_Witness ==
  /\ dialout_successful
  /\ event.op = "on_dialout_error"
  /\ retry_count < max_retries
  /\ Last(messages) = "unable_to_connect"
  /\ Count(calls, "start_dialout") = 0

\* C4: the gate is true whenever operator_connected is false, true when
\* operator_connected and not summary_finished, false only when both are
\* true; whatever dialed_operator is.
C4_SpeakGate ==
  event.op = "should_speak" =>
    /\ ~call_flow_state.operator_connected => ret = "True"
    /\ (call_flow_state.operator_connected
          /\ ~call_flow_state.summary_finished) => ret = "True"
    /\ (call_flow_state.operator_connected
          /\ call_flow_state.summary_finished) => ret = "False"

\* the gate evaluated with the summary flag raised and no operator connected
C4_Witness ==
  /\ event.op = "should_speak"
  /\ ~call_flow_state.operator_connected
  /\ call_flow_state.summary_finished
  /\ call_flow_state.dialed_operator
  /\ ret = "True"

\* C5: a transcription frame is pushed exactly once, in its own direction;
\* its text is the operator prefix followed by the original text iff it
\* flows downstream and its user_id is the operator session id held when it
\* is processed, and is the original text otherwise.
C5_TranscriptAttribution ==
  (/\ event.op = "TranscriptionModifierProcessor.process_frame"
   /\ event.frame.type = "TranscriptionFrame")
    => LET in == event.frame
           fromOperator ==
             /\ event.direction = "DOWNSTREAM"
             /\ get_session_id(session_ids, "operator") # None
             /\ in.user_id = get_session_id(session_ids, "operator")
       IN /\ Len(calls) = 1
          /\ calls[1].call = "push_frame"
          /\ calls[1].direction = event.direction
          /\ calls[1].frame.type = in.type
          /\ calls[1].frame.user_id = in.user_id
          /\ calls[1].frame.text =
               IF fromOperator THEN OperatorPrefix \o in.text ELSE in.text

\* the connected operator's speech travelling downstream, pushed marked
C5_Witness ==
  /\ event.op = "TranscriptionModifierProcessor.process_frame"
  /\ event.frame.type = "TranscriptionFrame"
  /\ event.direction = "DOWNSTREAM"
  /\ call_flow_state.operator_connected
  /\ event.frame.user_id = get_session_id(session_ids, "operator")
  /\ calls[1].frame.text = OperatorPrefix \o event.frame.text

\* C6: with no operator number configured, a transfer request appends exactly
\* one 'transfer unavailable' entry, issues no dial request, requests no
\* termination and leaves the retry variables, the session ids and the
\* call-flow flags as they were.
C6_TransferUnavailable ==
  [][(event'.op = "dial_operator" /\ operator_number \in {None, ""})
       => /\ messages' = Append(messages, "no_dialout_settings")
          /\ Count(calls', "start_dialout") = 0
          /\ Count(calls', "cancel") = 0
          /\ Count(calls', "queue_frame") = 0
          /\ UNCHANGED <<retry_count, dialout_successful, dialout_requests,
                         session_ids, session_id_refs, call_flow_state,
                         cancelled>>]_vars

\* a transfer request with OPERATOR_NUMBER set to the empty string
C6_Witness ==
  /\ event.op = "dial_operator"
  /\ operator_number = ""
  /\ Last(messages) = "no_dialout_settings"
  /\ retry_count = 0

\* C7: after one transfer request whose max_retries dial attempts each ended
\* in a dialout-error event, the last entry of the message log is the
\* 'unable to connect' notice.
C7_FailureNoticeAfterExhaustion ==
  (/\ event.op = "on_dialout_error"
   /\ retry_count = max_retries
   /\ outstanding = 0
   /\ ~dialout_successful
   /\ Len(SelectSeq(messages, LAMBDA m : m = "dial_intent")) = 1)
    => Last(messages) = "unable_to_connect"

\* C8: a transfer request with an operator number configured sets the
\* target, starts from attempt count 0 with succeeded cleared, and so issues
\* one dial request.
C8_TransferStartsFreshCycle ==
  [][(event'.op = "dial_operator" /\ operator_number = Number)
       => /\ dialout_params' = operator_number
          /\ retry_count' = 1
          /\ ~dialout_successful'
          /\ Count(calls', "start_dialout") = 1]_vars

\* C9: a dialout-error event handled after dialout_successful was set issues
\* no dial request, appends nothing and leaves retry_count, the session ids
\* and the call-flow flags as they were.
C9_ErrorAfterSuccessIgnored ==
  [][(dialout_successful /\ event'.op = "on_dialout_error")
       => /\ Count(calls', "start_dialout") = 0
          /\ UNCHANGED <<messages, retry_count, dialout_requests, session_ids,
                         session_id_refs, call_flow_state>>]_vars

\* C10: a dialout-answered event handled while operator_connected is true
\* leaves the operator session id, the call-flow flags and the message log
\* as they were and makes no transcript-capture request.
C10_DuplicateAnswerIgnored ==
  [][(call_flow_state.operator_connected /\ event'.op = "on_dialout_answered")
       => /\ Count(calls', "capture_participant_transcription") = 0
          /\ UNCHANGED <<session_ids, session_id_refs, call_flow_state,
                         messages>>]_vars

\* C11: a dialout-answered event handled while operator_connected is false
\* marks the dialout successful, sets the operator session id to the event's
\* session id, sets operator_connected and clears summary_finished, appends
\* exactly one 'summarize for the operator' entry and makes one
\* transcript-capture request, for that session id.
C11_AnswerConnectsOperator ==
  [][(event'.op = "on_dialout_answered"
        /\ ~call_flow_state.operator_connected)
       => /\ dialout_successful'
          /\ get_session_id(session_ids', "operator") = event'.arg
          /\ call_flow_state'.operator_connected
          /\ ~call_flow_state'.summary_finished
          /\ messages' = Append(messages, "operator_joining")
          /\ Count(calls', "capture_participant_transcription") = 1
          /\ calls'[1] =
               Call("capture_participant_transcription", event'.arg)]_vars

\* an answer handled with no operator connected, after a failed attempt
C11_Witness ==
  /\ event.op = "on_dialout_answered"
  /\ ~pre.operator_connected
  /\ call_flow_state.operator_connected
  /\ get_session_id(session_ids, "operator") = event.arg
  /\ Last(messages) = "operator_joining"
  /\ retry_count = 2
  /\ dialout_successful

\* C12: a participant-left event carrying the current operator session id
\* clears that id, sets operator_connected and summary_finished to false,
\* appends exactly one 'operator left' entry and requests no termination;
\* the speak gate is true afterwards.
C12_OperatorLeft ==
  [][(/\ event'.op = "on_participant_left"
      /\ get_session_id(session_ids, "operator") # None
      /\ event'.arg = get_session_id(session_ids, "operator"))
       => /\ get_session_id(session_ids', "operator") = None
          /\ ~call_flow_state'.operator_connected
          /\ ~call_flow_state'.summary_finished
          /\ messages' = Append(messages, "operator_left")
          /\ Count(calls', "cancel") = 0
          /\ cancelled' = cancelled
          /\ (~call_flow_state'.operator_connected
                \/ ~call_flow_state'.summary_finished)]_vars

\* the operator left after the summary was finished, the call goes on
C12_Witness ==
  /\ event.op = "on_participant_left"
  /\ pre.operator_connected
  /\ pre.summary_finished
  /\ ~call_flow_state.operator_connected
  /\ get_session_id(session_ids, "operator") = None
  /\ Last(messages) = "operator_left"
  /\ ~cancelled

\* C13: a participant-left event whose id is not the current operator
\* session id requests termination exactly once and changes neither the
\* session ids, the call-flow flags, the dialout counters nor the log.
C13_OtherParticipantLeft ==
  [][(/\ event'.op = "on_participant_left"
      /\ event'.arg # get_session_id(session_ids, "operator"))
       => /\ Count(calls', "cancel") = 1
          /\ cancelled'
          /\ UNCHANGED <<session_ids, session_id_refs, call_flow_state,
                         retry_count, dialout_successful, dialout_requests,
                         messages>>]_vars

\* the customer left while an operator was connected
C13_Witness ==
  /\ event.op = "on_participant_left"
  /\ event.arg = "cust"
  /\ call_flow_state.operator_connected
  /\ get_session_id(session_ids, "operator") \in OperatorIds
  /\ Count(calls, "cancel") = 1
  /\ cancelled

\* C14: on every turn between an operator's connection and the bot's next
\* stopped-speaking event the gate is true; on every turn from that event
\* until the operator leaves it is false; once the operator has left it is
\* true again.
C14_GateFollowsPhase ==
  event.op = "should_speak" =>
    /\ phase.stage = "bot_only" => ret = "True"
    /\ phase.stage = "summarizing" => ret = "True"
    /\ phase.stage = "operator_active" => ret = "False"

\* a turn skipped: the operator is on the call and the bot has stopped
\* speaking since they connected
C14_Witness ==
  /\ event.op = "should_speak"
  /\ phase.stage = "operator_active"
  /\ ret = "False"

\* C15 as stated: marking the summary finished while operator_connected is
\* false, by the method or by a stopped-speaking frame, changes no flag.
C15_MarkWithoutOperatorIsNoOp ==
  [][(/\ ~call_flow_state.operator_connected
      /\ \/ event'.op = "set_summary_finished"
         \/ (event'.op = "SummaryFinished.process_frame"
               /\ event'.arg = "BotStoppedSpeakingFrame"))
       => call_flow_state' = call_flow_state]_vars

\* C15 as amended: a frame processed by SummaryFinished while
\* operator_connected is false changes no call-flow flag;
\* set_summary_finished itself always leaves summary_finished true and the
\* other two flags as they were.
C15_FrameWithoutOperatorIsNoOp ==
  [][/\ (event'.op = "SummaryFinished.process_frame"
           /\ ~call_flow_state.operator_connected)
          => call_flow_state' = call_flow_state
     /\ event'.op = "set_summary_finished"
          => call_flow_state' =
               [call_flow_state EXCEPT !.summary_finished = TRUE]]_vars

\* the bot stopped speaking with an operator dialled but not connected
C15_Witness ==
  /\ event.op = "SummaryFinished.process_frame"
  /\ event.arg = "BotStoppedSpeakingFrame"
  /\ ~pre.operator_connected
  /\ pre.dialed_operator
  /\ ~pre.summary_finished
  /\ call_flow_state = pre

\* C16: reset_participant(role) clears the identifier of that role and of no
\* other; for "operator" it also sets operator_connected and
\* summary_finished to false and keeps dialed_operator; for any other role,
\* known or not, the three flags are unchanged.
C16_ResetParticipant ==
  [][event'.op = "reset_participant"
       => /\ \A r \in Roles :
               get_session_id(session_ids', r) =
                 IF r = event'.arg THEN None ELSE get_session_id(session_ids, r)
          /\ call_flow_state' =
               IF event'.arg = "operator"
               THEN [call_flow_state EXCEPT !.operator_connected = FALSE,
                                            !.summary_finished = FALSE]
               ELSE call_flow_state]_vars

\* the customer reset while an operator is connected and has the summary
C16_Witness ==
  /\ event.op = "reset_participant"
  /\ event.arg = "customer"
  /\ pre.operator_connected
  /\ pre.summary_finished
  /\ call_flow_state = pre
  /\ get_session_id(session_ids, "customer") = None
  /\ get_session_id(session_ids, "operator") # None
  /\ get_session_id(session_ids, "bot") # None

\* C17: a step that requests termination (task.cancel() or an EndTaskFrame)
\* is a participant-left event for someone other than the operator, or
\* terminate_call; no dialout event and no transfer request is such a step.
C17_TerminationOnlyByLeaveOrTerminate ==
  [][(\/ Count(calls', "cancel") > 0
      \/ \E i \in 1..Len(calls') :
           calls'[i].call = "queue_frame" /\ calls'[i].arg = "EndTaskFrame"
      \/ cancelled' # cancelled)
       => \/ event'.op = "terminate_call"
          \/ (event'.op = "on_participant_left"
                /\ event'.arg # get_session_id(session_ids, "operator"))]_vars

\* a transfer request refused with the retries used up, the call running
C17_Witness ==
  /\ event.op = "dial_operator"
  /\ retry_count = max_retries
  /\ Last(messages) = "unable_to_connect"
  /\ Count(calls, "cancel") = 0
  /\ ~cancelled

\* C18: terminate_call appends exactly one farewell entry, queues the
\* messages frame and then queues one EndTaskFrame, in that order.
C18_FarewellBeforeEnd ==
  [][event'.op = "terminate_call"
       => /\ messages' = Append(messages, "farewell")
          /\ Len(calls') = 2
          /\ calls'[1] = Call("queue_frames", "LLMMessagesFrame")
          /\ calls'[2] = Call("queue_frame", "EndTaskFrame")]_vars

\* terminate_call invoked while an operator is on the call
C18_Witness ==
  /\ event.op = "terminate_call"
  /\ call_flow_state.operator_connected
  /\ Last(messages) = "farewell"
  /\ Len(calls) = 2
  /\ calls[2].arg = "EndTaskFrame"

\* C19: a dialout-answered or dialout-error event handled after
\* task.cancel() was called issues no dial request and changes neither the
\* session ids, the call-flow flags nor the message log.
C19_ResultsDiscardedAfterCancel ==
  [][(cancelled
        /\ event'.op \in {"on_dialout_answered", "on_dialout_error"})
       => /\ Count(calls', "start_dialout") = 0
          /\ UNCHANGED <<session_ids, session_id_refs, call_flow_state,
                         messages, dialout_requests>>]_vars

\* C20: when every dial request gets its answered or error event, a dial
\* request in flight leads to a state where the dialout is marked successful
\* or retry_count equals max_retries, and from such a state no further dial
\* request is issued.
C20_DialoutCycleTerminates ==
  /\ (outstanding > 0) ~> (dialout_successful \/ retry_count = max_retries)
  /\ [][(dialout_successful \/ retry_count = max_retries)
          => /\ dialout_requests' = dialout_requests
             /\ Count(calls', "start_dialout") = 0]_vars

\* a cycle that ended exhausted: every one of its requests failed
C20_Witness ==
  /\ retry_count = max_retries
  /\ dialout_requests = max_retries
  /\ outstanding = 0
  /\ ~dialout_successful
  /\ event.op = "on_dialout_error"
  /\ calls = << >>

\* C21: with handlers interleaving at their awaits, a dial request is
\* issued only in a step that found retry_count below max_retries and the
\* dialout not yet successful and that raised retry_count by one in the same
\* step; so the dial requests of a call equal retry_count and never exceed
\* max_retries.
C21_DialBoundUnderInterleaving ==
  /\ [](dialout_requests = retry_count /\ dialout_requests <= max_retries)
  /\ [][dialout_requests' # dialout_requests
          => /\ retry_count < max_retries
             /\ ~dialout_successful
             /\ retry_count' = retry_count + 1
             /\ dialout_requests' = dialout_requests + 1]_vars

\* the last allowed request, issued by the error handler while an answered
\* handler and a dial_operator call are both suspended
C21_Witness ==
  /\ event.op = "on_dialout_error"
  /\ Count(calls, "start_dialout") = 1
  /\ dialout_requests = max_retries
  /\ tasks[Continuation("dial_operator", None)] = 1
  /\ \E sessionId \in OperatorIds :
       tasks[Continuation("on_dialout_answered", sessionId)] = 1

\* C22: once a dialout-answered event has started to be handled (its handler
\* is suspended at the transcript capture, or has marked the dialout
\* successful), no further dial request is issued.
C22_NoDialOnceAnswerStarted ==
  [][(\/ dialout_successful
      \/ \E sessionId \in OperatorIds :
           tasks[Continuation("on_dialout_answered", sessionId)] > 0)
       => /\ dialout_requests' = dialout_requests
          /\ Count(calls', "start_dialout") = 0]_vars

\* C23: summary_finished implies operator_connected in every state of a
\* call; the flag is raised only by a stopped-speaking frame seen while an
\* operator is connected, and a step that takes operator_connected to false
\* leaves it false.
C23_SummaryImpliesConnected ==
  /\ [](call_flow_state.summary_finished
          => call_flow_state.operator_connected)
  /\ [][/\ (~call_flow_state.summary_finished
              /\ call_flow_state'.summary_finished)
             => /\ event'.op = "SummaryFinished.process_frame"
                /\ event'.arg = "BotStoppedSpeakingFrame"
                /\ call_flow_state.operator_connected
        /\ (call_flow_state.operator_connected
              /\ ~call_flow_state'.operator_connected)
             => ~call_flow_state'.summary_finished]_vars

\* the flag raised by the bot's stopping to speak, an operator on the call
C23_Witness ==
  /\ event.op = "SummaryFinished.process_frame"
  /\ ~pre.summary_finished
  /\ call_flow_state.summary_finished
  /\ call_flow_state.operator_connected

\* C24: between handlers, operator_connected holds exactly when an operator
\* session id is set, operator_connected implies dialout_successful, and
\* the operator session id is the same before and after any step across
\* which operator_connected stays true.
C24_ConnectedIffOperatorId ==
  /\ [](/\ call_flow_state.operator_connected
             <=> get_session_id(session_ids, "operator") # None
        /\ call_flow_state.operator_connected => dialout_successful)
  /\ [][(call_flow_state.operator_connected
           /\ call_flow_state'.operator_connected)
          => get_session_id(session_ids', "operator")
               = get_session_id(session_ids, "operator")]_vars

\* a second answer, from another session, with the first operator connected
C24_Witness ==
  /\ event.op = "on_dialout_answered"
  /\ pre.operator_connected
  /\ call_flow_state.operator_connected
  /\ get_session_id(session_ids, "operator") \in OperatorIds
  /\ event.arg # get_session_id(session_ids, "operator")

\* C25: for each role the cell handed out by get_session_id_ref holds what
\* get_session_id returns, after any sequence of set_session_id and
\* reset_participant calls, and a call naming a role outside the three
\* changes nothing.
C25_RefCellFollowsSessionId ==
  /\ [](\A r \in Roles : session_id_refs[r] = get_session_id(session_ids, r))
  /\ [][(event'.op \in {"set_session_id", "reset_participant"}
           /\ event'.arg \notin Roles)
          => UNCHANGED <<session_ids, session_id_refs, call_flow_state>>]_vars

\* an id set for an unknown role, with ids set for the three known ones
C25_Witness ==
  /\ event.op = "set_session_id"
  /\ event.arg = "supervisor"
  /\ \A r \in Roles : session_id_refs[r] # None
  /\ session_id_refs["operator"] # session_id_refs["customer"]

\* C26 as stated: at most one dial request is outstanding at any time.
C26_AtMostOneOutstanding == outstanding <= 1

\* C26 as amended: the dialout-error handler never raises the number of
\* outstanding requests; only dial_operator does, by one at a time, and the
\* number outstanding never exceeds max_retries.
C26_OnlyTransferAddsOutstanding ==
  /\ [](outstanding <= max_retries)
  /\ [][/\ event'.op = "on_dialout_error" => outstanding' <= outstanding
        /\ outstanding' > outstanding
             => /\ event'.op = "dial_operator"
                /\ outstanding' = outstanding + 1]_vars

\* a retry issued after an error while a second request is still in flight
C26_Witness ==
  /\ event.op = "on_dialout_error"
  /\ Count(calls, "start_dialout") = 1
  /\ outstanding = 2
  /\ retry_count = 3

====
